---------------------------- MODULE Spec2Model ----------------------------
(***************************************************************************)
(* Model of subtitles_corrector.py: parse_srt, parse_txt,                  *)
(* align_text_to_subtitles, format_srt and main.                           *)
(*                                                                         *)
(* A Python str is a sequence of one-character strings.  Offsets into a    *)
(* str are 0-based as in the source; At(s, i) reads s[i].  A well-formed   *)
(* timestamp range "HH:MM:SS,mmm --> HH:MM:SS,mmm" is one token of the     *)
(* sequence ("T1", "T2", ...): the regular expression of parse_srt matches *)
(* it as a whole as its timestamp group; the only other part of the        *)
(* pattern that can match inside it is \d+, on the milliseconds that end   *)
(* it (TimestampTail).                                                     *)
(*                                                                         *)
(* The source computes int(ratio * len(correct_text)) in binary floating   *)
(* point.  For every text shorter than 22 characters this equals the exact *)
(* floor(a * c / b) (the first difference is a = 15, b = c = 22), so the   *)
(* model, whose texts are far shorter, divides exactly.                    *)
(***************************************************************************)
EXTENDS Integers, Sequences, FiniteSets, TLC

\* ------------------------------------------------------------------ bounds
MaxCues == 2
MaxOrigLen == 3
MaxRefLen == 4
MaxRoundTripCues == 2

\* The characters of the cue texts and of the reference text.
CueChars == {"a", "b", " "}
RefChars == {"a", " "}
\* The 'index' values of the cues (the file's numbering need not be 1, 2, ...).
IndexValues == {1, 2, 3}
\* Timestamp ranges, one token each.
Timestamps == <<"T1", "T2", "T3", "T4">>
TimestampSet == {Timestamps[i] : i \in 1..Len(Timestamps)}
\* The digits that end a timestamp range (the milliseconds of its end time).
TimestampTail(t) == IF t = "T2" THEN <<"5", "0", "0">> ELSE <<"0", "0", "0">>

\* The value None of the source, for correct_start and correct_end, and for
\* the bookkeeping of reads that did not happen.
NoneVal == -1000

\* ------------------------------------------------------- Python str helpers
At(s, i) == s[i + 1]

Min(a, b) == IF a < b THEN a ELSE b
Max(a, b) == IF a > b THEN a ELSE b

\* str.isspace for the characters that occur.
IsSpace(c) == c \in {" ", "\n", "\t"}
IsDigit(c) == c \in {"0", "1", "2", "3", "4", "5", "6", "7", "8", "9"}

\* s[lo:hi] of Python: negative bounds count from the end, both are clamped.
PySlice(s, lo, hi) ==
    LET n  == Len(s)
        l0 == IF lo < 0 THEN Max(lo + n, 0) ELSE Min(lo, n)
        h0 == IF hi < 0 THEN Max(hi + n, 0) ELSE Min(hi, n)
    IN  IF l0 >= h0 THEN <<>> ELSE SubSeq(s, l0 + 1, h0)

\* str.strip(): drop leading and trailing white space.
RECURSIVE LStrip(_)
LStrip(s) == IF s # <<>> /\ IsSpace(Head(s)) THEN LStrip(Tail(s)) ELSE s
RECURSIVE RStrip(_)
RStrip(s) ==
    IF s # <<>> /\ IsSpace(s[Len(s)]) THEN RStrip(SubSeq(s, 1, Len(s) - 1)) ELSE s
Strip(s) == RStrip(LStrip(s))

\* str.rfind(' ', 0, hi): the highest offset below hi holding a space, or -1.
RFindSpace(s, hi) ==
    LET found == {i \in 0..(Min(hi, Len(s)) - 1) : At(s, i) = " "}
    IN  IF found = {} THEN -1 ELSE CHOOSE i \in found : \A j \in found : j <= i

\* str.find(' ', lo): the lowest offset from lo on holding a space, or -1.
FindSpace(s, lo) ==
    LET found == {i \in lo..(Len(s) - 1) : At(s, i) = " "}
    IN  IF found = {} THEN -1 ELSE CHOOSE i \in found : \A j \in found : i <= j

\* ' '.join(texts)
RECURSIVE JoinWith(_, _)
JoinWith(sep, texts) ==
    IF texts = <<>> THEN <<>>
    ELSE IF Len(texts) = 1 THEN texts[1]
    ELSE texts[1] \o sep \o JoinWith(sep, Tail(texts))

\* sum(len(s['text']) for s in subs)
RECURSIVE SumTextLen(_)
SumTextLen(subs) ==
    IF subs = <<>> THEN 0 ELSE Len(subs[1].text) + SumTextLen(Tail(subs))

\* str(n) and int(digits) for n >= 0.
DigitOf(d) == CASE d = 0 -> "0" [] d = 1 -> "1" [] d = 2 -> "2" [] d = 3 -> "3"
                [] d = 4 -> "4" [] d = 5 -> "5" [] d = 6 -> "6" [] d = 7 -> "7"
                [] d = 8 -> "8" [] d = 9 -> "9"
ValueOf(c) == CHOOSE d \in 0..9 : DigitOf(d) = c
RECURSIVE IntToStr(_)
IntToStr(n) == IF n < 10 THEN <<DigitOf(n)>> ELSE IntToStr(n \div 10) \o <<DigitOf(n % 10)>>
RECURSIVE StrToInt(_)
StrToInt(ds) ==
    IF ds = <<>> THEN 0 ELSE 10 * StrToInt(SubSeq(ds, 1, Len(ds) - 1)) + ValueOf(ds[Len(ds)])

\* All strings over chars of length at most n.
StringsUpTo(chars, n) == UNION {[1..k -> chars] : k \in 0..n}

\* ------------------------------------------------- difflib.SequenceMatcher
\* Length of the common run of a and b that ends at a[i], b[j], not reaching
\* below alo, blo (the j2len table of find_longest_match).
RECURSIVE RunLen(_, _, _, _, _, _)
RunLen(a, b, i, j, alo, blo) ==
    IF i < alo \/ j < blo THEN 0
    ELSE IF At(a, i) # At(b, j) THEN 0
    ELSE 1 + RunLen(a, b, i - 1, j - 1, alo, blo)

\* find_longest_match(alo, ahi, blo, bhi) without junk: the longest block
\* a[i:i+k] == b[j:j+k] inside the ranges; of the longest, the one starting
\* earliest in a, and of those the one starting earliest in b.
FindLongestMatch(a, b, alo, ahi, blo, bhi) ==
    LET ends == {e \in (alo..(ahi - 1)) \X (blo..(bhi - 1)) :
                    RunLen(a, b, e[1], e[2], alo, blo) > 0}
        size(e) == RunLen(a, b, e[1], e[2], alo, blo)
        better(e, f) == \/ size(e) > size(f)
                        \/ size(e) = size(f) /\ e[1] - size(e) < f[1] - size(f)
                        \/ size(e) = size(f) /\ e[1] - size(e) = f[1] - size(f)
                                             /\ e[2] <= f[2]
    IN  IF ends = {} THEN [i |-> alo, j |-> blo, size |-> 0]
        ELSE LET e == CHOOSE x \in ends : \A y \in ends : better(x, y)
             IN  [i |-> e[1] - size(e) + 1, j |-> e[2] - size(e) + 1, size |-> size(e)]

\* get_matching_blocks(), expanded as lines 43-46 expand it: the pairs
\* <<offset in a, offset in b>> of every matching block.
RECURSIVE MatchedPairs(_, _, _, _, _, _)
MatchedPairs(a, b, alo, ahi, blo, bhi) ==
    LET m == FindLongestMatch(a, b, alo, ahi, blo, bhi)
    IN  IF m.size = 0 THEN {}
        ELSE {<<m.i + d, m.j + d>> : d \in 0..(m.size - 1)}
             \cup (IF alo < m.i /\ blo < m.j
                   THEN MatchedPairs(a, b, alo, m.i, blo, m.j) ELSE {})
             \cup (IF m.i + m.size < ahi /\ m.j + m.size < bhi
                   THEN MatchedPairs(a, b, m.i + m.size, ahi, m.j + m.size, bhi)
                   ELSE {})

PositionMap(a, b) == MatchedPairs(a, b, 0, Len(a), 0, Len(b))
InMap(pm, i) == \E p \in pm : p[1] = i
MapGet(pm, i) == IF InMap(pm, i) THEN (CHOOSE p \in pm : p[1] = i)[2] ELSE NoneVal


\* ------------------------------------------------------------- parse_srt
\* The end of the run of digits (\d+) that starts at offset p.
RECURSIVE DigitsEnd(_, _)
DigitsEnd(s, p) == IF p < Len(s) /\ IsDigit(At(s, p)) THEN DigitsEnd(s, p + 1) ELSE p

\* The end of the run of white space (\s+, greedy) that starts at offset p.
RECURSIVE SpaceEnd(_, _)
SpaceEnd(s, p) == IF p < Len(s) /\ IsSpace(At(s, p)) THEN SpaceEnd(s, p + 1) ELSE p

\* The lookahead (?=\n\n\d+\s+|$) at offset q.  Without re.MULTILINE, $ holds
\* at the end of the string and just before a newline that ends the string.
LookaheadNext(s, q) ==
    /\ q + 1 < Len(s)
    /\ At(s, q) = "\n"
    /\ At(s, q + 1) = "\n"
    /\ LET d == DigitsEnd(s, q + 2) IN d > q + 2 /\ SpaceEnd(s, d) > d
LookaheadDollarOnly(s, q) == q = Len(s) \/ (q = Len(s) - 1 /\ At(s, q) = "\n")
Lookahead(s, q) ==
    \/ LookaheadNext(s, q)
    \/ q = Len(s)
    \/ q = Len(s) - 1 /\ At(s, q) = "\n"

\* ([\s\S]*?) is lazy: the text ends at the first offset where the lookahead holds.
RECURSIVE TextEnd(_, _)
TextEnd(s, q) == IF Lookahead(s, q) THEN q ELSE TextEnd(s, q + 1)

\* One match of the pattern of line 13 starting at offset p, or, when s[p]
\* is a timestamp range, at the digits that end it.  Every greedy run takes
\* the whole run: a shorter \d+ or first \s+ cannot be followed by what the
\* pattern wants next, and after the whole second \s+ the lazy text can
\* always reach the end of the string.
MatchAt(s, p) ==
    LET tail == At(s, p) \in TimestampSet
        d0 == IF tail THEN p + 1 ELSE p
        d  == DigitsEnd(s, d0)
        ds == (IF tail THEN TimestampTail(At(s, p)) ELSE <<>>) \o PySlice(s, d0, d)
        w  == SpaceEnd(s, d)
        ok == ds # <<>> /\ w > d /\ w < Len(s) /\ At(s, w) \in TimestampSet
        w2 == SpaceEnd(s, w + 1)
    IN  IF ok /\ w2 > w + 1
        THEN LET q == TextEnd(s, w2)
             IN  [ok |-> TRUE, stop |-> q,
                  cue |-> [index     |-> StrToInt(ds),
                           timestamp |-> At(s, w),
                           text      |-> Strip(PySlice(s, w2, q))]]
        ELSE [ok |-> FALSE, stop |-> p, cue |-> <<>>]

\* re.findall: the matches from left to right, each search resuming where
\* the match before it ended.
RECURSIVE FindAll(_, _)
FindAll(s, p) ==
    IF p >= Len(s) THEN <<>>
    ELSE LET m == MatchAt(s, p)
         IN  IF m.ok THEN <<m.cue>> \o FindAll(s, m.stop) ELSE FindAll(s, p + 1)

parse_srt(content) == FindAll(content, 0)

\* parse_txt: f.read().strip()
parse_txt(content) == Strip(content)

\* ------------------------------------------------------------ format_srt
\* Line 127: a cue whose text is empty is skipped.
EmitsAlways(c) == TRUE
Emits(c) == c.text # <<>>

\* Line 130: f"{sub['index']}\n{sub['timestamp']}\n{sub['text']}\n"
BlockOf(c) ==
    IntToStr(c.index) \o <<"\n", c.timestamp, "\n">> \o c.text \o <<"\n">>

\* The list srt_content after the loop of lines 125-130.
RECURSIVE FormatBlocks(_)
FormatBlocks(subs) ==
    IF subs = <<>> THEN <<>>
    ELSE IF Emits(subs[1])
         THEN <<BlockOf(subs[1])>> \o FormatBlocks(Tail(subs))
         ELSE FormatBlocks(Tail(subs))

\* Line 132: "\n".join(srt_content)
format_srt(subs) == JoinWith(<<"\n">>, FormatBlocks(subs))

\* ---------------------------------------- align_text_to_subtitles, per cue
\* Lines 62-67: the mapped offset closest to the end of the cue, plus one.
LookupEnd(pm, sub_start, sub_end) ==
    LET mapped == {i \in sub_start..sub_end : InMap(pm, i)}
    IN  IF mapped = {} THEN NoneVal
        ELSE MapGet(pm, CHOOSE i \in mapped : \A j \in mapped : j <= i) + 1

\* Lines 72-76 and 78-82: int(ratio * len(correct_text)).
ApproxUnscaled(offset, orig_len, ref_len) == offset
Approx(offset, orig_len, ref_len) ==
    IF offset >= orig_len THEN ref_len ELSE (offset * ref_len) \div orig_len

\* correct_text[i] of Python for an index that may be negative.
IndexOk(s, i) == -Len(s) <= i /\ i < Len(s)
PyIndex(s, i) == IF i < 0 THEN s[Len(s) + i + 1] ELSE s[i + 1]

\* Lines 85-89.
SnapStartOf(ref, cs) ==
    IF cs > 0 /\ PyIndex(ref, cs - 1) # " "
    THEN LET prev_space == RFindSpace(ref, cs)
         IN  IF prev_space # -1 THEN prev_space + 1 ELSE cs
    ELSE cs

\* Lines 91-95.
SnapEndOf(ref, ce) ==
    IF ce < Len(ref) /\ PyIndex(ref, ce - 1) # " "
    THEN LET next_space == FindSpace(ref, ce)
         IN  IF next_space # -1 THEN next_space ELSE ce
    ELSE ce

\* Line 98.
ExtractUntrimmed(ref, cs, ce) == PySlice(ref, cs, ce)
Extract(ref, cs, ce) == Strip(PySlice(ref, cs, ce))

\* Line 105: the summed text length of subtitles[:sub['index']-1].
PrecedingLen(subs, sub) == SumTextLen(PySlice(subs, 0, sub.index - 1))
\* Lines 105-106 (total_len > 0 here).
StartChar(subs, sub, ref) ==
    (Len(ref) * PrecedingLen(subs, sub)) \div SumTextLen(subs)
CharCount(subs, sub, ref) ==
    (Len(ref) * Len(sub.text)) \div SumTextLen(subs)
\* Line 107.
FallbackKeepOriginal(ref, sub, start_c, count) == sub.text
FallbackText(ref, sub, start_c, count) == Strip(PySlice(ref, start_c, start_c + count))


\* ------------------------------------------------------------------ state
VARIABLES
    pc,                  \* where the program is
    argc,                \* len(sys.argv)
    srt_file,            \* content of the subtitle file
    txt_file,            \* content of the reference text file
    written,             \* whether output_file has been written
    output_file,         \* content of output_file once written
    exit_status,         \* exit status of the process, -1 while it runs
    subtitles,           \* the cues given to align_text_to_subtitles
    correct_text,        \* the reference text given to it
    original_text,       \* line 37
    position_map,        \* lines 43-46
    original_pos,        \* line 52, line 117
    sub_pos,             \* 1-based position of `sub` in the loop of line 54
    correct_start,       \* lines 60, 76, 89
    correct_end,         \* lines 63-67, 82, 95
    interpolated,        \* whether the branch of line 70 was taken for `sub`
    read_index,          \* the index of the last correct_text[...] read
    divisors,            \* the divisors of the divisions of the last step
    corrected_text,      \* lines 98, 107
    fell_back,           \* whether the branch of line 101 was taken for `sub`
    start_char,          \* line 105
    char_count,          \* line 106
    corrected_subtitles, \* line 49, lines 110-114
    srt_blocks,          \* the list srt_content of format_srt
    srt_content,         \* the string format_srt returns
    reparsed             \* parse_srt of the written file

vars == <<pc, argc, srt_file, txt_file, written, output_file, exit_status,
          subtitles, correct_text, original_text, position_map, original_pos,
          sub_pos, correct_start, correct_end, interpolated, read_index,
          divisors, corrected_text, fell_back, start_char, char_count,
          corrected_subtitles, srt_blocks, srt_content, reparsed>>

fileVars == <<argc, srt_file, txt_file>>
outVars == <<written, output_file, exit_status, srt_blocks, srt_content, reparsed>>
inputVars == <<subtitles, correct_text>>
cueVars == <<correct_start, correct_end, interpolated, read_index, divisors,
             corrected_text, fell_back, start_char, char_count>>

\* `sub` of the loop of line 54.
sub == subtitles[sub_pos]
sub_start == original_pos
sub_end == original_pos + Len(sub.text)

\* ----------------------------------------------------------------- inputs
\* Cue lists of at most MaxCues cues whose joined text has at most MaxOrigLen
\* characters; the i-th cue carries the i-th timestamp range.
CuesOf(n) ==
    LET texts == StringsUpTo(CueChars, MaxOrigLen - (n - 1))
        raw   == [1..n -> [index : IndexValues, text : texts]]
        fits(c) == Len(JoinWith(<<" ">>, [i \in 1..n |-> c[i].text])) <= MaxOrigLen
    IN  {[i \in 1..n |-> [index |-> c[i].index, timestamp |-> Timestamps[i],
                          text |-> c[i].text]] : c \in {x \in raw : fits(x)}}
CueLists == UNION {CuesOf(n) : n \in 0..MaxCues}
RefTexts == StringsUpTo(RefChars, MaxRefLen)

\* A subtitle file holding the given cues in the usual layout.
RenderSrt(cues) ==
    JoinWith(<<"\n">>, [i \in 1..Len(cues) |->
        IntToStr(cues[i].index) \o <<"\n", cues[i].timestamp, "\n">>
            \o cues[i].text \o <<"\n">>])
\* Files that hold no cue block.
ProseFiles == {<<>>, <<"a">>, <<"a", " ", "b", "\n">>, <<"1", "\n", "a", "\n">>}
SrtFiles == {RenderSrt(c) : c \in CueLists} \cup ProseFiles
TxtFiles == {<<>>, <<"a">>, <<"a", " ", "a", "\n">>, <<" ", "a", "a", " ">>}

\* The cue lists given to format_srt in the round trip.
RoundTripTexts ==
    {<<>>, <<"a">>, <<"a", " ", "b">>, <<"a", "\n", "b">>, <<"1">>,
     <<"a", "\n", "\n", "b">>, <<"a", "\n", "\n", "1">>,
     <<"a", "\n", "\n", "1", " ", "b">>,
     <<"a", "\n", "\n", "1", "\n", "T1">>,
     <<" ">>, <<" ", "a">>}
RoundTripIndexes == {1, 12}
RoundTripCues ==
    UNION {[1..n -> [index : RoundTripIndexes, timestamp : {"T1", "T2"},
                     text : RoundTripTexts]] : n \in 0..MaxRoundTripCues}

\* ------------------------------------------------------------------- Init
Blank ==
    /\ written = FALSE
    /\ output_file = <<>>
    /\ exit_status = -1
    /\ original_text = <<>>
    /\ position_map = {}
    /\ original_pos = 0
    /\ sub_pos = 1
    /\ correct_start = NoneVal
    /\ correct_end = NoneVal
    /\ interpolated = FALSE
    /\ read_index = NoneVal
    /\ divisors = {}
    /\ corrected_text = <<>>
    /\ fell_back = FALSE
    /\ start_char = 0
    /\ char_count = 0
    /\ srt_blocks = <<>>
    /\ srt_content = <<>>
    /\ reparsed = <<>>

\* The program started from the command line.
Init ==
    /\ pc = "start"
    /\ argc \in {2, 3}
    /\ srt_file \in SrtFiles
    /\ txt_file \in TxtFiles
    /\ subtitles = <<>>
    /\ correct_text = <<>>
    /\ corrected_subtitles = <<>>
    /\ Blank

\* align_text_to_subtitles called with any cue list and any reference text.
InitAlign ==
    /\ pc = "align"
    /\ argc = 0
    /\ srt_file = <<>>
    /\ txt_file = <<>>
    /\ subtitles \in CueLists
    /\ correct_text \in RefTexts
    /\ corrected_subtitles = <<>>
    /\ Blank

\* format_srt called with any cue list, its result written and parsed again.
InitRoundTrip ==
    /\ pc = "aligned"
    /\ argc = 0
    /\ srt_file = <<>>
    /\ txt_file = <<>>
    /\ subtitles = <<>>
    /\ correct_text = <<>>
    /\ corrected_subtitles \in RoundTripCues
    /\ Blank

\* ------------------------------------------------------------- __main__
\* Lines 154-156.
Usage ==
    /\ pc = "start"
    /\ argc < 3
    /\ pc' = "exited"
    /\ exit_status' = 1
    /\ UNCHANGED <<fileVars, written, output_file, srt_blocks, srt_content, reparsed,
                   inputVars, original_text, position_map, original_pos, sub_pos,
                   cueVars, corrected_subtitles>>

\* Lines 158-162.
CallMain ==
    /\ pc = "start"
    /\ argc >= 3
    /\ pc' = "parse_srt"
    /\ UNCHANGED <<fileVars, outVars, inputVars, original_text, position_map,
                   original_pos, sub_pos, cueVars, corrected_subtitles>>

\* Line 137.
ParseSrt ==
    /\ pc = "parse_srt"
    /\ subtitles' = parse_srt(srt_file)
    /\ pc' = "parse_txt"
    /\ UNCHANGED <<fileVars, outVars, correct_text, original_text, position_map,
                   original_pos, sub_pos, cueVars, corrected_subtitles>>

\* Line 138.
ParseTxt ==
    /\ pc = "parse_txt"
    /\ correct_text' = parse_txt(txt_file)
    /\ pc' = "align"
    /\ UNCHANGED <<fileVars, outVars, subtitles, original_text, position_map,
                   original_pos, sub_pos, cueVars, corrected_subtitles>>

\* ------------------------------------------------ align_text_to_subtitles
\* Lines 37-52.
AlignBegin ==
    /\ pc = "align"
    /\ original_text' = JoinWith(<<" ">>, [i \in 1..Len(subtitles) |-> subtitles[i].text])
    /\ position_map' = PositionMap(original_text', correct_text)
    /\ corrected_subtitles' = <<>>
    /\ original_pos' = 0
    /\ sub_pos' = 1
    /\ pc' = "loop"
    /\ UNCHANGED <<fileVars, outVars, inputVars, cueVars>>

\* Lines 54-67: the next cue, and the lookup of its two ends.
NextCue ==
    /\ pc = "loop"
    /\ sub_pos <= Len(subtitles)
    /\ correct_start' = MapGet(position_map, sub_start)
    /\ correct_end' = LookupEnd(position_map, sub_start, sub_end)
    /\ interpolated' = FALSE
    /\ fell_back' = FALSE
    /\ read_index' = NoneVal
    /\ divisors' = {}
    /\ pc' = "approx"
    /\ UNCHANGED <<fileVars, outVars, inputVars, original_text, position_map,
                   original_pos, sub_pos, corrected_text, start_char, char_count,
                   corrected_subtitles>>

\* Line 70, condition false.
UseMapping ==
    /\ pc = "approx"
    /\ correct_start # NoneVal /\ correct_end # NoneVal
    /\ pc' = "snap_start"
    /\ UNCHANGED <<fileVars, outVars, inputVars, original_text, position_map,
                   original_pos, sub_pos, cueVars, corrected_subtitles>>

\* Lines 70-82.
Approximate ==
    /\ pc = "approx"
    /\ ~(correct_start # NoneVal /\ correct_end # NoneVal)
    /\ interpolated' = TRUE
    /\ correct_start' = Approx(sub_start, Len(original_text), Len(correct_text))
    /\ correct_end' = Approx(sub_end, Len(original_text), Len(correct_text))
    /\ divisors' = (IF sub_start >= Len(original_text) THEN {} ELSE {Len(original_text)})
                   \cup (IF sub_end >= Len(original_text) THEN {} ELSE {Len(original_text)})
    /\ pc' = "snap_start"
    /\ UNCHANGED <<fileVars, outVars, inputVars, original_text, position_map,
                   original_pos, sub_pos, read_index, corrected_text, fell_back,
                   start_char, char_count, corrected_subtitles>>

\* Lines 85-89.  correct_text[correct_start - 1] is read when correct_start > 0.
SnapStart ==
    /\ pc = "snap_start"
    /\ divisors' = {}
    /\ IF correct_start > 0
       THEN /\ read_index' = correct_start - 1
            /\ IF IndexOk(correct_text, correct_start - 1)
               THEN /\ correct_start' = SnapStartOf(correct_text, correct_start)
                    /\ pc' = "snap_end"
               ELSE /\ correct_start' = correct_start
                    /\ pc' = "IndexError"
       ELSE /\ read_index' = NoneVal
            /\ correct_start' = correct_start
            /\ pc' = "snap_end"
    /\ UNCHANGED <<fileVars, outVars, inputVars, original_text, position_map,
                   original_pos, sub_pos, correct_end, interpolated, corrected_text,
                   fell_back, start_char, char_count, corrected_subtitles>>

\* Lines 91-95.  correct_text[correct_end - 1] is read when
\* correct_end < len(correct_text).
SnapEnd ==
    /\ pc = "snap_end"
    /\ IF correct_end < Len(correct_text)
       THEN /\ read_index' = correct_end - 1
            /\ IF IndexOk(correct_text, correct_end - 1)
               THEN /\ correct_end' = SnapEndOf(correct_text, correct_end)
                    /\ pc' = "extract"
               ELSE /\ correct_end' = correct_end
                    /\ pc' = "IndexError"
       ELSE /\ read_index' = NoneVal
            /\ correct_end' = correct_end
            /\ pc' = "extract"
    /\ UNCHANGED <<fileVars, outVars, inputVars, original_text, position_map,
                   original_pos, sub_pos, correct_start, interpolated, divisors,
                   corrected_text, fell_back, start_char, char_count,
                   corrected_subtitles>>

\* Line 98.
ExtractText ==
    /\ pc = "extract"
    /\ corrected_text' = Extract(correct_text, correct_start, correct_end)
    /\ read_index' = NoneVal
    /\ pc' = "ensure"
    /\ UNCHANGED <<fileVars, outVars, inputVars, original_text, position_map,
                   original_pos, sub_pos, correct_start, correct_end, interpolated,
                   divisors, fell_back, start_char, char_count, corrected_subtitles>>

\* Line 101, condition false.
KeepText ==
    /\ pc = "ensure"
    /\ ~(corrected_text = <<>> /\ sub.text # <<>>)
    /\ pc' = "append"
    /\ UNCHANGED <<fileVars, outVars, inputVars, original_text, position_map,
                   original_pos, sub_pos, cueVars, corrected_subtitles>>

\* Lines 101-107.  Line 104 divides by total_len when it is positive, line 105
\* divides by it in any case.
SecondaryFallback ==
    /\ pc = "ensure"
    /\ corrected_text = <<>> /\ sub.text # <<>>
    /\ fell_back' = TRUE
    /\ divisors' = {SumTextLen(subtitles)}
    /\ IF SumTextLen(subtitles) = 0
       THEN /\ pc' = "ZeroDivisionError"
            /\ UNCHANGED <<start_char, char_count, corrected_text>>
       ELSE /\ start_char' = StartChar(subtitles, sub, correct_text)
            /\ char_count' = CharCount(subtitles, sub, correct_text)
            /\ corrected_text' = FallbackText(correct_text, sub, start_char', char_count')
            /\ pc' = "append"
    /\ UNCHANGED <<fileVars, outVars, inputVars, original_text, position_map,
                   original_pos, sub_pos, correct_start, correct_end, interpolated,
                   read_index, corrected_subtitles>>

\* Lines 110-114: the cue appended to corrected_subtitles.
CorrectedCue(s, text) == [index |-> s.index, timestamp |-> s.timestamp, text |-> text]
AppendedSkipEmpty(list, cue) == IF cue.text = <<>> THEN list ELSE Append(list, cue)
Appended(list, cue) == Append(list, cue)

\* Lines 110-117.
AppendCue ==
    /\ pc = "append"
    /\ corrected_subtitles' = Appended(corrected_subtitles, CorrectedCue(sub, corrected_text))
    /\ original_pos' = sub_end + 1
    /\ sub_pos' = sub_pos + 1
    /\ pc' = "loop"
    /\ UNCHANGED <<fileVars, outVars, inputVars, original_text, position_map, cueVars>>

\* Line 119.
AlignReturn ==
    /\ pc = "loop"
    /\ sub_pos > Len(subtitles)
    /\ pc' = "aligned"
    /\ UNCHANGED <<fileVars, outVars, inputVars, original_text, position_map,
                   original_pos, sub_pos, cueVars, corrected_subtitles>>

\* ------------------------------------------------------------------ main
\* Line 144 (format_srt, lines 121-132).
FormatSrt ==
    /\ pc = "aligned"
    /\ srt_blocks' = FormatBlocks(corrected_subtitles)
    /\ srt_content' = format_srt(corrected_subtitles)
    /\ pc' = "write"
    /\ UNCHANGED <<fileVars, written, output_file, exit_status, reparsed, inputVars,
                   original_text, position_map, original_pos, sub_pos, cueVars,
                   corrected_subtitles>>

\* Lines 146-149: main has no other way from format_srt to its end.
WriteOutput ==
    /\ pc = "write"
    /\ written' = TRUE
    /\ output_file' = srt_content
    /\ exit_status' = 0
    /\ pc' = "exited"
    /\ UNCHANGED <<fileVars, srt_blocks, srt_content, reparsed, inputVars,
                   original_text, position_map, original_pos, sub_pos, cueVars,
                   corrected_subtitles>>

\* parse_srt (lines 9-24) run on the file just written.
ParseOutput ==
    /\ pc = "exited"
    /\ written
    /\ reparsed' = parse_srt(output_file)
    /\ pc' = "reparsed"
    /\ UNCHANGED <<fileVars, written, output_file, exit_status, srt_blocks,
                   srt_content, inputVars, original_text, position_map, original_pos,
                   sub_pos, cueVars, corrected_subtitles>>

\* --------------------------------------------------------- specifications
AlignStep ==
    \/ AlignBegin
    \/ NextCue
    \/ UseMapping
    \/ Approximate
    \/ SnapStart
    \/ SnapEnd
    \/ ExtractText
    \/ KeepText
    \/ SecondaryFallback
    \/ AppendCue
    \/ AlignReturn

Next ==
    \/ Usage
    \/ CallMain
    \/ ParseSrt
    \/ ParseTxt
    \/ AlignStep
    \/ FormatSrt
    \/ WriteOutput

Spec == Init /\ [][Next]_vars

NextAlign == AlignStep
SpecAlign == InitAlign /\ [][NextAlign]_vars

NextRoundTrip == FormatSrt \/ WriteOutput \/ ParseOutput
SpecRoundTrip == InitRoundTrip /\ [][NextRoundTrip]_vars


\* ----------------------------------------------------------------- claims
Crashed == pc \in {"IndexError", "ZeroDivisionError"}

\* t occurs in s as a contiguous run of characters.
IsSubstring(t, s) ==
    \E i \in 0..(Len(s) - Len(t)) : SubSeq(s, i + 1, i + Len(t)) = t
\* t neither starts nor ends with white space.
IsTrimmed(t) == t = <<>> \/ (~IsSpace(t[1]) /\ ~IsSpace(t[Len(t)]))
\* t holds no blank line.
NoBlankLine(t) == \A i \in 1..(Len(t) - 1) : ~(t[i] = "\n" /\ t[i + 1] = "\n")
\* The cues of a list that have a text.
WithText(cues) == SelectSeq(cues, LAMBDA c : c.text # <<>>)

\* C1: align_text_to_subtitles returns (it raises nothing) a list as long as
\* the cue list, whose i-th cue carries the index and the timestamp of the
\* i-th input cue; the input cues are never modified.
C1_AlignKeepsCues ==
    /\ [](~Crashed)
    /\ [](pc = "aligned" =>
            /\ Len(corrected_subtitles) = Len(subtitles)
            /\ \A i \in 1..Len(subtitles) :
                  /\ corrected_subtitles[i].index = subtitles[i].index
                  /\ corrected_subtitles[i].timestamp = subtitles[i].timestamp)
    /\ [][subtitles' = subtitles /\ correct_text' = correct_text]_vars

\* Two cues, numbered 3 and 1, returned with a first text that was replaced
\* by the empty text.
C1_Witness ==
    /\ pc = "aligned"
    /\ Len(subtitles) = 2
    /\ Len(corrected_subtitles) = 2
    /\ subtitles[1].index = 3 /\ subtitles[2].index = 1
    /\ subtitles[1].text # <<>>
    /\ corrected_subtitles[1].text = <<>>
    /\ corrected_subtitles[2].text # subtitles[2].text

\* C2: the text found for a cue, on the mapped path, on the interpolation
\* path and after the secondary fallback, is a contiguous substring of the
\* reference text and neither starts nor ends with white space.
C2_TextIsTrimmedSubstring ==
    pc = "append" =>
        /\ IsSubstring(corrected_text, correct_text)
        /\ IsTrimmed(corrected_text)

\* A mapped cue whose slice of the reference had white space to trim.
C2_Witness ==
    /\ pc = "append"
    /\ ~interpolated
    /\ ~fell_back
    /\ corrected_text # <<>>
    /\ Len(PySlice(correct_text, correct_start, correct_end)) > Len(corrected_text)

\* A cue whose text came from the secondary fallback and is not empty.
C2_WitnessFallback ==
    /\ pc = "append"
    /\ fell_back
    /\ corrected_text # <<>>

\* C3: the two interpolated offsets lie in [0, len(reference)] and the start
\* is not greater than the end.
C3_InterpolatedOffsetsInRange ==
    (pc = "snap_start" /\ interpolated) =>
        /\ 0 <= correct_start
        /\ correct_start <= correct_end
        /\ correct_end <= Len(correct_text)

\* An interpolated cue that is not the first, that ends where the joined
\* original text ends, with a reference shorter than the original text.
C3_Witness ==
    /\ pc = "snap_start"
    /\ interpolated
    /\ 0 < Len(correct_text)
    /\ Len(correct_text) < Len(original_text)
    /\ sub_start > 0
    /\ sub.text # <<>>
    /\ sub_end >= Len(original_text)
    /\ correct_start < sub_start

\* C4: every read correct_text[...] of the snapping step uses an index in
\* [0, len(reference) - 1], every division has a positive divisor, and no
\* IndexError or ZeroDivisionError is raised.
C4_ReadsAndDivisionsInRange ==
    /\ ~Crashed
    /\ \A d \in divisors : d > 0
    /\ read_index # NoneVal => (0 <= read_index /\ read_index <= Len(correct_text) - 1)

\* C5: format_srt emits one block for each cue that has a text, in order, and
\* none for the others; the block starts with that cue's own index and its
\* own timestamp.
C5_FormatEmitsCuesWithText ==
    pc \in {"write", "exited", "reparsed"} =>
        LET kept == WithText(corrected_subtitles)
        IN  /\ Len(srt_blocks) = Len(kept)
            /\ Len(srt_blocks) <= Len(corrected_subtitles)
            /\ \A k \in 1..Len(kept) :
                  LET head == IntToStr(kept[k].index) \o <<"\n", kept[k].timestamp, "\n">>
                  IN  /\ Len(srt_blocks[k]) >= Len(head)
                      /\ SubSeq(srt_blocks[k], 1, Len(head)) = head

\* A cue without text before a cue with text numbered 12: one block, which
\* keeps the number 12.
C5_Witness ==
    /\ pc = "write"
    /\ Len(corrected_subtitles) = 2
    /\ corrected_subtitles[1].text = <<>>
    /\ corrected_subtitles[2].text # <<>>
    /\ corrected_subtitles[2].index = 12
    /\ Len(srt_blocks) = 1

\* The cue texts of a valid cue list: trimmed, and without a blank line.
PlainTexts(cues) ==
    \A i \in 1..Len(cues) : IsTrimmed(cues[i].text) /\ NoBlankLine(cues[i].text)

\* C6 as claimed: parsing what format_srt wrote yields as many cues as were
\* given to format_srt, the i-th with the timestamp of the i-th given cue.
C6_RoundTripKeepsEveryCue ==
    (pc = "reparsed" /\ PlainTexts(corrected_subtitles)) =>
        /\ Len(reparsed) = Len(corrected_subtitles)
        /\ \A i \in 1..Len(reparsed) :
              reparsed[i].timestamp = corrected_subtitles[i].timestamp

\* C6 as amended: parsing what format_srt wrote yields as many cues as have a
\* text, the i-th with the timestamp of the i-th cue that has a text.
C6_RoundTripKeepsCuesWithText ==
    (pc = "reparsed" /\ PlainTexts(corrected_subtitles)) =>
        LET kept == WithText(corrected_subtitles)
        IN  /\ Len(reparsed) = Len(kept)
            /\ \A i \in 1..Len(kept) : reparsed[i].timestamp = kept[i].timestamp

\* Two cues with a text and different timestamps, written and parsed again.
C6_Witness ==
    /\ pc = "reparsed"
    /\ PlainTexts(corrected_subtitles)
    /\ Len(corrected_subtitles) = 2
    /\ Len(reparsed) = 2
    /\ corrected_subtitles[1].timestamp = "T2"
    /\ corrected_subtitles[2].timestamp = "T1"
    /\ \E i \in 1..Len(corrected_subtitles[1].text) : corrected_subtitles[1].text[i] = "\n"

\* C7: when the subtitle file holds no cue block, main does not write the
\* output file and the process does not exit with status 0.
C7_NoCuesIsAFailure ==
    (argc >= 3 /\ parse_srt(srt_file) = <<>>) =>
        /\ ~written
        /\ exit_status # 0

\* C8: with an empty reference text every cue gets the empty text, the
\* secondary fallback included, and format_srt emits no block.
C8_EmptyReferenceGivesEmptyTexts ==
    correct_text = <<>> =>
        /\ pc = "append" => corrected_text = <<>>
        /\ pc = "aligned" =>
              /\ \A i \in 1..Len(corrected_subtitles) : corrected_subtitles[i].text = <<>>
              /\ FormatBlocks(corrected_subtitles) = <<>>

\* Two cues returned for an empty reference, the last one through the
\* secondary fallback.
C8_Witness ==
    /\ pc = "aligned"
    /\ correct_text = <<>>
    /\ Len(corrected_subtitles) = 2
    /\ fell_back
    /\ subtitles[1].text # <<>>

\* C9: after the snapping step both ends of the slice are at word boundaries
\* (the start is 0 or follows a space, the end is len(reference) or lies on or
\* directly after a space), so that no slice that holds text begins or ends
\* in the middle of a word of the reference: its first character is not
\* preceded by another word character, its last is not followed by one.
C9_EndsAtWordBoundaries ==
    (pc = "extract" /\ correct_start < correct_end) =>
        /\ ~(/\ correct_start > 0
             /\ At(correct_text, correct_start - 1) # " "
             /\ At(correct_text, correct_start) # " ")
        /\ ~(/\ correct_end < Len(correct_text)
             /\ At(correct_text, correct_end - 1) # " "
             /\ At(correct_text, correct_end) # " ")

\* C10: the secondary fallback starts the slice at floor(len(reference) * P / T)
\* and gives it the length floor(len(reference) * L / T), P being the summed
\* text length of the cues before this cue in the list.
C10_FallbackUsesPositionInList ==
    (pc = "append" /\ fell_back) =>
        LET T == SumTextLen(subtitles)
            P == SumTextLen(SubSeq(subtitles, 1, sub_pos - 1))
            L == Len(sub.text)
        IN  /\ start_char = (Len(correct_text) * P) \div T
            /\ char_count = (Len(correct_text) * L) \div T

=============================================================================
